---- MODULE Spec2Model ----
(***************************************************************************)
(* Worker agent core: the scheduler tick (flush outbox, claim, fan out     *)
(* under a semaphore, join), the per-job pipeline (run handler, report,    *)
(* outbox fallback), the outbox file, and the heartbeat's reconfiguration  *)
(* of the scheduler.  Modelled from src/bot/*.py.                          *)
(***************************************************************************)
EXTENDS Integers, Sequences, FiniteSets, TLC

\* ---------------------------------------------------------------- bounds
\* Raw entries the dispatcher hands out over a whole run.
MaxJobs == 3
\* Entries in one claim response.
MaxBatch == 2
\* Largest max_concurrency an assignment carries.
MaxConc == 2
\* Assignment updates delivered by heartbeats over a whole run.
MaxReconf == 1
\* Entries appended to the outbox file between two drains.
MaxAppends == 1001
\* Registrations made on one registry.
MaxRegs == 4

\* ------------------------------------------------------ program constants
\* outbox.drain's default max_items.
DefaultMaxItems == 1000
\* settings.claim_batch_size and settings.max_concurrency.
claim_batch_size == 5
max_concurrency == 2

\* Callers of Scheduler.tick: Bot._run_loop, and a second caller running
\* tick() on the same scheduler at the same time.
Ticks == {"run", "aux"}

\* identity["instance_id"] handed to the Scheduler.
InstanceId == "inst_1"

Min(a, b) == IF a <= b THEN a ELSE b

\* ------------------------------------------------------------ dispatcher
\* What can come back from POST /jobs/{id}/{action}: a 2xx with a JSON
\* body, a non-2xx with a JSON body, or no answer (transport error).
Responses == {"2xx", "503", "neterr"}

\* The dispatcher records a report only when it answers 2xx.
Accepted(resp) == resp = "2xx"

\* Payloads a claimed job can carry.
Payloads == {[a |-> 1, b |-> 2], [a |-> 1]}

\* Shapes of the n-th raw entry of the claim responses: well-formed with a
\* registered op, with an unregistered op, and without the op key.
RawJobs(n) ==
    {[id |-> n, op |-> "sum", payload |-> p] : p \in Payloads}
    \cup {[id |-> n, op |-> "mul", payload |-> [a |-> 1, b |-> 2]]}
    \cup {[id |-> n, payload |-> [a |-> 1, b |-> 2]]}

\* Claim responses: up to MaxBatch entries, numbered after the n already
\* handed out (the dispatcher hands out each job id once); each entry is
\* kept with its serial number n.
RECURSIVE Batches(_, _)
Batches(n, k) ==
    IF k = 0 \/ n >= MaxJobs THEN {<<>>}
    ELSE {<<>>} \cup {<<[n |-> n + 1, raw |-> r]>> \o b :
                        r \in RawJobs(n + 1), b \in Batches(n + 1, k - 1)}

\* ------------------------------------------------------------ ApiClient
\* Bodies of the answers to POST /jobs/claim: a batch under the key jobs,
\* or an object without that key.
ClaimBodies(n) ==
    {[jobs |-> b] : b \in Batches(n, MaxBatch)} \cup {[error |-> "unknown bot"]}

\* ApiClient.claim: data.get("jobs", []).
claim(body) == IF "jobs" \in DOMAIN body THEN body.jobs ELSE <<>>

\* ApiClient.report: posts and returns the decoded body; it raises only
\* when the transport fails, whatever the status.
ReportRaises(resp) == resp = "neterr"

\* --------------------------------------------------------------- plugins
\* plugins/sum.py and plugins/subtract.py: KeyError when a or b is missing.
SumHandle(payload) ==
    IF "a" \notin DOMAIN payload THEN [ok |-> FALSE, error |-> <<"'a'">>]
    ELSE IF "b" \notin DOMAIN payload THEN [ok |-> FALSE, error |-> <<"'b'">>]
    ELSE [ok |-> TRUE, result |-> [result |-> payload.a + payload.b]]

SubtractHandle(payload) ==
    IF "a" \notin DOMAIN payload THEN [ok |-> FALSE, error |-> <<"'a'">>]
    ELSE IF "b" \notin DOMAIN payload THEN [ok |-> FALSE, error |-> <<"'b'">>]
    ELSE [ok |-> TRUE, result |-> [result |-> payload.a - payload.b]]

\* jobs.op(name)(fn): REGISTRY[name] = fn, on the dict's items.
opKeepsFirst(reg, name, fn) ==
    IF \E p \in reg : p[1] = name THEN reg ELSE reg \cup {<<name, fn>>}
op(reg, name, fn) == {p \in reg : p[1] # name} \cup {<<name, fn>>}

\* jobs.load_plugins: the modules of bot.plugins are imported in the order
\* pkgutil lists them, and each registers its handler when imported.
PluginRegs == <<<<"subtract", "subtract.handle">>, <<"sum", "sum.handle">>>>
load_plugins(reg) ==
    op(op(reg, PluginRegs[1][1], PluginRegs[1][2]), PluginRegs[2][1], PluginRegs[2][2])

\* The handlers a registry holds for an op name, and calling one.
Handlers(reg, name) == {p[2] : p \in {q \in reg : q[1] = name}}
Call(fn, payload) ==
    IF fn = "sum.handle" THEN SumHandle(payload) ELSE SubtractHandle(payload)

\* ---------------------------------------------------------------- outbox
\* json.dumps(item) + "\n" and json.loads(line).
dumps(item) == [json |-> item]
loadsWithoutOutcome(line) ==
    [job_id |-> line.json.job_id, action |-> line.json.action,
     payload |-> [instance_id |-> line.json.payload.instance_id]]
loads(line) == line.json

\* outbox.append: the file after the call.
append(file, item) ==
    [exists |-> TRUE, lines |-> Append(file.lines, dumps(item))]

\* A line that json.loads rejects (JSONDecodeError), e.g. one cut short.
TornLine == [text |-> "{"]
Parses(line) == "json" \in DOMAIN line

\* outbox.drain raises when a line of the file does not parse; the file is
\* unlinked before the lines are parsed.
DrainRaises(file) ==
    file.exists /\ \E i \in 1..Len(file.lines) : ~Parses(file.lines[i])

\* outbox.drain: the items it returns.
drainNewest(file, max_items) ==
    IF ~file.exists THEN <<>>
    ELSE LET items == [i \in 1..Len(file.lines) |-> loads(file.lines[i])]
         IN  SubSeq(items, Len(items) - Min(max_items, Len(items)) + 1, Len(items))
drain(file, max_items) ==
    IF ~file.exists THEN <<>>
    ELSE LET items == [i \in 1..Len(file.lines) |-> loads(file.lines[i])]
         IN  SubSeq(items, 1, Min(max_items, Len(items)))

\* OBX.unlink(missing_ok=True).
Unlinked == [exists |-> FALSE, lines |-> <<>>]
unlinkKeeps(file) == file
unlink(file) == IF file.exists THEN Unlinked ELSE file

\* outbox.drain: the file after the call, whether it returned or raised;
\* the unlink comes before the lines are parsed.
DrainLeavesFileOnError(file, raised) == IF raised THEN file ELSE unlink(file)
DrainLeaves(file, raised) == unlink(file)

\* ------------------------------------------------------------- semaphore
\* asyncio.Semaphore: locked(), acquire() without waiting, release().
Locked(v, s) == v[s] = 0
SemAcquire(v, s) == [v EXCEPT ![s] = @ - 1]
SemReleaseTwice(v, s) == [v EXCEPT ![s] = @ + 2]
SemRelease(v, s) == [v EXCEPT ![s] = @ + 1]

VARIABLES
    callers,     \* the callers of tick() that are running
    pc,          \* where each caller is: idle, flush, claim, acquire, gather
    items,       \* flush_outbox: drained items not yet reported
    todo,        \* tick: raw jobs of the batch not yet spawned
    waitSem,     \* tick: the semaphore whose acquire() it is suspended in
    tasks,       \* tick: the jobs spawned by the current invocation
    job,         \* the task of every raw entry handed out and what it did
    semValue,    \* _value of every semaphore constructed so far
    sem,         \* Scheduler.sem: index of the current semaphore
    assignment,  \* Bot.assignment
    OBX,         \* the outbox file
    acked,       \* dispatcher: job ids whose report it answered with 2xx
    handed,      \* dispatcher: number of raw entries handed out
    updates,     \* dispatcher: assignment updates it has still to push
    appended,    \* job ids whose terminal report _process_one put in the outbox
    flushed,     \* flush_outbox: what the current flush drained and did
    boot,        \* Bot.start: register (call in flight), run, failed
    bot_id,      \* Bot.bot_id
    token,       \* ApiClient._token
    scheduler,   \* Bot.scheduler is not None
    ops,         \* Scheduler.ops
    hb,          \* _heartbeat_loop: none (not spawned), sleep, call
    pushed,      \* dispatcher: the assignment it last put in a heartbeat answer
    claimReq,    \* tick: body of the claim request that is in flight
    proc,        \* outbox file's users: first process, exited, later process
    written,     \* entries whose outbox.append returned in the first process
    got,         \* what the last outbox.drain call returned
    lastDrain,   \* that call's max_items and the entries the file then held
    ended,       \* how each caller's last tick() ended: none, returned, raised
    before,      \* tick: the permits that were available when it was called
    REGISTRY,    \* jobs.REGISTRY: the (op name, handler) items of the dict
    regs         \* the registrations made so far, oldest first

\* Set by Bot.start/_register only; used by the outbox's processes only.
botVars == <<boot, bot_id, token, scheduler>>
laterVars == <<proc, written, got, lastDrain>>
pluginVars == <<REGISTRY, regs>>

vars == <<callers, pc, items, todo, waitSem, tasks, job, semValue, sem,
          assignment, OBX, acked, handed, updates, appended, flushed,
          ops, hb, pushed, claimReq, botVars, laterVars, ended, before, pluginVars>>

\* jobs.run_job: RuntimeError for an op without handler, else the handler.
run_job(jb) ==
    IF Handlers(REGISTRY, jb.op) = {}
    THEN [ok |-> FALSE, error |-> <<"No handler for op=", jb.op>>]
    ELSE Call(CHOOSE fn \in Handlers(REGISTRY, jb.op) : TRUE, jb.payload)

JobIds == 1..MaxJobs

NoJob == [st |-> "none"]
Gone == [st |-> "gone"]
NoFlush == [drained |-> <<>>, tried |-> <<>>, raised |-> FALSE, put |-> <<>>,
            putFailed |-> FALSE, rejected |-> FALSE, drain |-> "none"]
NoRequest == [bot_id |-> "none", operations |-> <<>>, limit |-> 0]
NoPush == [operations |-> <<>>, max_concurrency |-> 0]

\* Jobs that hold a permit: acquired and not yet released.
InFlight == {j \in JobIds : job[j].st \in {"spawned", "report"}}

\* Nothing has run yet: no tick, no job, no report, and a dispatcher that
\* has u assignment updates to push.
Quiet(cs, u) ==
    /\ callers = cs
    /\ updates = u
    /\ pc = [t \in Ticks |-> "idle"]
    /\ items = [t \in Ticks |-> <<>>]
    /\ todo = [t \in Ticks |-> <<>>]
    /\ waitSem = [t \in Ticks |-> 1]
    /\ tasks = [t \in Ticks |-> {}]
    /\ job = [j \in JobIds |-> NoJob]
    /\ acked = {}
    /\ handed = 0
    /\ appended = {}
    /\ flushed = [t \in Ticks |-> NoFlush]
    /\ claimReq = [t \in Ticks |-> NoRequest]
    /\ pushed = NoPush
    /\ ended = [t \in Ticks |-> "none"]
    /\ before = [t \in Ticks |-> 0]

\* The outbox file has one user, the process at hand.
NoDrain == [max_items |-> 0, held |-> 0]
NoLater == proc = "first" /\ written = <<>> /\ got = <<>> /\ lastDrain = NoDrain

\* The process has called load_plugins() on the empty registry.
Loaded == REGISTRY = load_plugins({}) /\ regs = PluginRegs

\* Bot.__init__: no bot_id, the default assignment, no scheduler.
Unregistered ==
    /\ assignment = [operations |-> <<>>, max_concurrency |-> max_concurrency]
    /\ semValue = <<>>
    /\ sem = 0
    /\ boot = "register"
    /\ bot_id = "none"
    /\ token = "none"
    /\ scheduler = FALSE
    /\ ops = <<>>
    /\ hb = "none"

\* A Scheduler constructed directly (no Bot, no heartbeat loop) with
\* max_conc = n, and the callers cs of its tick().
InitWith(cs, u) ==
    /\ Quiet(cs, u)
    /\ \E n \in 1..MaxConc :
          /\ assignment = [operations |-> <<"sum">>, max_concurrency |-> n]
          /\ semValue = <<n>>
    /\ sem = 1
    /\ OBX = Unlinked
    /\ boot = "run"
    /\ bot_id = "bot_1"
    /\ token = "none"
    /\ scheduler = TRUE
    /\ ops = <<"sum">>
    /\ hb = "none"
    /\ NoLater
    /\ Loaded

\* A report an earlier process put in the outbox.
OldEntry ==
    [job_id |-> 0, action |-> "complete",
     payload |-> [instance_id |-> InstanceId, result |-> [result |-> 0]]]

\* The outbox file a starting process finds: none, or one left by an
\* earlier process whose last line was cut short.
LeftOver ==
    {Unlinked,
     [exists |-> TRUE, lines |-> <<TornLine>>],
     [exists |-> TRUE, lines |-> <<dumps(OldEntry), TornLine>>]}

\* Bot.__init__ followed by start() up to the register call: no bot_id, the
\* default assignment, no scheduler, register in flight.
Init ==
    /\ Quiet({}, MaxReconf)
    /\ Unregistered
    /\ OBX \in LeftOver
    /\ NoLater
    /\ Loaded

InitConc == InitWith(Ticks, 0)

\* ------------------------------------------------------------- scheduler
\* _process_one: Job(id=raw["id"], op=raw["op"], payload=raw["payload"], ...)
\* raises KeyError unless the three keys are there.
WellFormed(raw) == {"id", "op", "payload"} \subseteq DOMAIN raw

\* _process_one up to the live report call: the triple it sends.
TerminalReportAlwaysComplete(raw) ==
    LET r == run_job(raw)
    IN  [job_id |-> raw.id, action |-> "complete",
         payload |-> IF r.ok THEN [instance_id |-> InstanceId, result |-> r.result]
                     ELSE [instance_id |-> InstanceId, error |-> r.error]]
TerminalReport(raw) ==
    LET r == run_job(raw)
    IN  IF r.ok
        THEN [job_id |-> raw.id, action |-> "complete",
              payload |-> [instance_id |-> InstanceId, result |-> r.result]]
        ELSE [job_id |-> raw.id, action |-> "fail",
              payload |-> [instance_id |-> InstanceId, error |-> r.error]]

\* asyncio.create_task(self._run_guarded(raw)) with a permit of semaphore s.
Spawned(t, raw, s) ==
    [st |-> "spawned", raw |-> raw, sem |-> s, rel |-> <<>>,
     out |-> "none", reports |-> <<>>, resp |-> "none", live |-> "none",
     appends |-> <<>>, appendFailed |-> FALSE, exc |-> FALSE]

\* tick's for loop: while the current semaphore has a free permit, acquire
\* it (no suspension) and create the task of the next raw job.
RECURSIVE FanOutNewestFirst(_, _, _, _)
FanOutNewestFirst(t, v, jb, batch) ==
    IF batch = <<>> \/ Locked(v, sem)
    THEN [v |-> v, job |-> jb, rest |-> batch]
    ELSE FanOutNewestFirst(t, SemAcquire(v, sem),
                [jb EXCEPT ![batch[Len(batch)].n] = Spawned(t, batch[Len(batch)].raw, sem)],
                SubSeq(batch, 1, Len(batch) - 1))
RECURSIVE FanOut(_, _, _, _)
FanOut(t, v, jb, batch) ==
    IF batch = <<>> \/ Locked(v, sem)
    THEN [v |-> v, job |-> jb, rest |-> batch]
    ELSE FanOut(t, SemAcquire(v, sem),
                [jb EXCEPT ![Head(batch).n] = Spawned(t, Head(batch).raw, sem)],
                Tail(batch))

\* The rest of tick once the loop has gone as far as it can: suspended in
\* acquire() of the current semaphore, or in gather.
AfterFanOut(t, f, started) ==
    /\ semValue' = f.v
    /\ job' = f.job
    /\ todo' = [todo EXCEPT ![t] = f.rest]
    /\ tasks' = [tasks EXCEPT ![t] = started \cup
                    {j \in JobIds : job[j].st = "none" /\ f.job[j].st # "none"}]
    /\ IF f.rest = <<>>
       THEN /\ pc' = [pc EXCEPT ![t] = "gather"]
            /\ UNCHANGED waitSem
       ELSE /\ pc' = [pc EXCEPT ![t] = "acquire"]
            /\ waitSem' = [waitSem EXCEPT ![t] = sem]

\* A finished task that no gather waits for any more is garbage; its record
\* is dropped when the next tick() call starts.
Collected ==
    [j \in JobIds |->
        IF job[j].st = "done" /\ j \notin UNION {tasks[u] : u \in Ticks}
        THEN Gone ELSE job[j]]

\* tick: body of the request api.claim(self.bot_id, self.ops,
\* settings.claim_batch_size) sends.
ClaimRequest == [bot_id |-> bot_id, operations |-> ops, limit |-> claim_batch_size]

\* tick after outbox.drain(): a drain that raised ends the tick; otherwise
\* the flush reports what was drained, and the claim follows the flush.
AfterDrainClaimsAnyway(raised, its) == IF its = <<>> THEN "claim" ELSE "flush"
AfterDrain(raised, its) ==
    IF raised THEN "idle" ELSE IF its = <<>> THEN "claim" ELSE "flush"

\* tick(): outbox.drain() at the start of flush_outbox; the first report of
\* the flush, or the claim when nothing was drained, is then under way. A
\* drain that raises leaves tick, the file being unlinked already.
TickStart(t) ==
    /\ t \in callers
    /\ pc[t] = "idle"
    /\ LET raised == DrainRaises(OBX)
           its == IF raised THEN <<>> ELSE drain(OBX, DefaultMaxItems)
           to == AfterDrain(raised, its)
       IN  /\ items' = [items EXCEPT ![t] = its]
           /\ flushed' = [flushed EXCEPT ![t] =
                            [NoFlush EXCEPT !.drained = its,
                                            !.drain = IF raised THEN "raised" ELSE "returned"]]
           /\ pc' = [pc EXCEPT ![t] = to]
           /\ claimReq' = [claimReq EXCEPT ![t] = IF to = "claim" THEN ClaimRequest ELSE NoRequest]
           /\ ended' = [ended EXCEPT ![t] = IF raised THEN "raised" ELSE "none"]
           /\ before' = [before EXCEPT ![t] = IF raised THEN 0 ELSE semValue[sem]]
           /\ OBX' = DrainLeaves(OBX, raised)
    /\ job' = Collected
    /\ UNCHANGED <<callers, todo, waitSem, tasks, semValue, sem, assignment,
                   acked, handed, updates, appended, ops, hb, pushed, botVars, laterVars, pluginVars>>

\* flush_outbox's loop: the items still to report after this one; a report
\* that raised ends the loop (break).
FlushRestNoBreak(its, raised) == Tail(its)
FlushRest(its, raised) == IF raised THEN <<>> ELSE Tail(its)

\* flush_outbox: the item goes back to the outbox when its report raised.
PutBackAlways(raised) == TRUE
PutBack(raised) == raised

\* flush_outbox: the report of the next drained item has answered. When it
\* raises the item is put back and the loop is left; when that append
\* raises too the error leaves tick.
FlushReport(t, resp, diskOk) ==
    /\ pc[t] = "flush"
    /\ LET item == Head(items[t])
           raised == ReportRaises(resp)
           rest == FlushRest(items[t], raised)
       IN  /\ items' = [items EXCEPT ![t] = IF raised /\ ~diskOk THEN <<>> ELSE rest]
           /\ acked' = IF ~raised /\ Accepted(resp) THEN acked \cup {item.job_id} ELSE acked
           /\ OBX' = IF PutBack(raised) /\ diskOk THEN append(OBX, item) ELSE OBX
           /\ flushed' = [flushed EXCEPT ![t] =
                            [@ EXCEPT !.tried = Append(@, item),
                                      !.raised = @ \/ raised,
                                      !.put = IF PutBack(raised) THEN Append(@, item) ELSE @,
                                      !.putFailed = @ \/ (raised /\ ~diskOk),
                                      !.rejected = @ \/ (~raised /\ ~Accepted(resp))]]
           /\ pc' = [pc EXCEPT ![t] = IF raised /\ ~diskOk THEN "idle"
                                      ELSE IF rest = <<>> THEN "claim" ELSE "flush"]
           /\ claimReq' = [claimReq EXCEPT ![t] =
                             IF ~(raised /\ ~diskOk) /\ rest = <<>>
                             THEN ClaimRequest ELSE NoRequest]
           /\ ended' = [ended EXCEPT ![t] = IF raised /\ ~diskOk THEN "raised" ELSE @]
           /\ before' = [before EXCEPT ![t] = IF raised /\ ~diskOk THEN 0 ELSE @]
    /\ UNCHANGED <<callers, todo, waitSem, tasks, job, semValue, sem, assignment,
                   handed, updates, appended, ops, hb, pushed, botVars, laterVars, pluginVars>>

\* tick once api.claim has answered: its error leaves tick, an empty batch
\* makes tick sleep and return, and otherwise tick goes on (none).
AfterClaimSwallowed(raised, batch) == IF batch = <<>> THEN "returned" ELSE "none"
AfterClaim(raised, batch) ==
    IF raised THEN "raised" ELSE IF batch = <<>> THEN "returned" ELSE "none"

\* tick: api.claim raised; the error leaves tick and _run_loop sleeps.
ClaimRaise(t) ==
    /\ pc[t] = "claim"
    /\ pc' = [pc EXCEPT ![t] = "idle"]
    /\ ended' = [ended EXCEPT ![t] = AfterClaim(TRUE, <<>>)]
    /\ before' = [before EXCEPT ![t] = 0]
    /\ flushed' = [flushed EXCEPT ![t] = NoFlush]
    /\ claimReq' = [claimReq EXCEPT ![t] = NoRequest]
    /\ UNCHANGED <<callers, items, todo, waitSem, tasks, job, semValue, sem,
                   assignment, OBX, acked, handed, updates, appended,
                   ops, hb, pushed, botVars, laterVars, pluginVars>>

\* tick: api.claim returned a batch. Empty: sleep and return. Otherwise the
\* fan-out loop runs until it has to wait for a permit.
ClaimReturn(t, batch) ==
    /\ pc[t] = "claim"
    /\ handed' = handed + Len(batch)
    /\ flushed' = [flushed EXCEPT ![t] = NoFlush]
    /\ IF batch = <<>>
       THEN /\ pc' = [pc EXCEPT ![t] = "idle"]
            /\ UNCHANGED <<todo, waitSem, tasks, job, semValue>>
       ELSE AfterFanOut(t, FanOut(t, semValue, job, batch), {})
    /\ ended' = [ended EXCEPT ![t] = AfterClaim(FALSE, batch)]
    /\ before' = [before EXCEPT ![t] = IF batch = <<>> THEN 0 ELSE @]
    /\ claimReq' = [claimReq EXCEPT ![t] = NoRequest]
    /\ UNCHANGED <<callers, items, sem, assignment, OBX, acked, updates, appended,
                   ops, hb, pushed, botVars, laterVars, pluginVars>>

\* tick: the acquire() it was suspended in gets a permit of that semaphore;
\* the task is created and the loop goes on with the current semaphore.
AcquireWake(t) ==
    /\ pc[t] = "acquire"
    /\ ~Locked(semValue, waitSem[t])
    /\ LET s == waitSem[t]
           e == Head(todo[t])
       IN  AfterFanOut(t, FanOut(t, SemAcquire(semValue, s),
                                 [job EXCEPT ![e.n] = Spawned(t, e.raw, s)],
                                 Tail(todo[t])),
                       tasks[t])
    /\ UNCHANGED <<callers, items, sem, assignment, OBX, acked, handed, updates,
                   appended, flushed, ops, hb, pushed, claimReq, botVars, laterVars, ended, before, pluginVars>>

\* tick: asyncio.gather returns when every task of this tick is done.
GatherReturn(t) ==
    /\ pc[t] = "gather"
    /\ \A j \in tasks[t] : job[j].st = "done" /\ ~job[j].exc
    /\ pc' = [pc EXCEPT ![t] = "idle"]
    /\ ended' = [ended EXCEPT ![t] = "returned"]
    /\ before' = [before EXCEPT ![t] = 0]
    /\ tasks' = [tasks EXCEPT ![t] = {}]
    /\ UNCHANGED <<callers, items, todo, waitSem, job, semValue, sem,
                   assignment, OBX, acked, handed, updates, appended, flushed,
                   ops, hb, pushed, claimReq, botVars, laterVars, pluginVars>>

\* tick: asyncio.gather raises as soon as one task has raised; the other
\* tasks keep running, the error leaves tick and _run_loop sleeps.
GatherRaise(t) ==
    /\ pc[t] = "gather"
    /\ \E j \in tasks[t] : job[j].st = "done" /\ job[j].exc
    /\ pc' = [pc EXCEPT ![t] = "idle"]
    /\ ended' = [ended EXCEPT ![t] = "raised"]
    /\ before' = [before EXCEPT ![t] = 0]
    /\ tasks' = [tasks EXCEPT ![t] = {}]
    /\ UNCHANGED <<callers, items, todo, waitSem, job, semValue, sem,
                   assignment, OBX, acked, handed, updates, appended, flushed,
                   ops, hb, pushed, claimReq, botVars, laterVars, pluginVars>>

\* _run_guarded's finally: self.sem.release() on the scheduler's semaphore
\* of that moment.
ReleaseSkipped(v) == v
Release(v) == SemRelease(v, sem)

\* _run_guarded/_process_one: build the Job, await the handler, send the
\* live report. A raw entry without id, op or payload raises KeyError.
RunJob(j) ==
    /\ job[j].st = "spawned"
    /\ LET raw == job[j].raw
       IN  IF ~WellFormed(raw)
           THEN /\ job' = [job EXCEPT ![j].st = "done", ![j].exc = TRUE,
                                      ![j].rel = Append(@, sem)]
                /\ semValue' = Release(semValue)
           ELSE /\ job' = [job EXCEPT ![j].st = "report",
                                      ![j].out = IF run_job(raw).ok THEN "returned" ELSE "raised",
                                      ![j].reports = Append(@, TerminalReport(raw))]
                /\ UNCHANGED semValue
    /\ UNCHANGED <<callers, pc, items, todo, waitSem, tasks, sem, assignment,
                   OBX, acked, handed, updates, appended, flushed,
                   ops, hb, pushed, claimReq, botVars, laterVars, ended, before, pluginVars>>

\* _process_one from the answer of the live report on: the task's record
\* when it ends. A report that raises sends the triple to outbox.append;
\* when that raises too the error leaves the task.
ProcessOneEndAlwaysAppend(jr, resp, diskOk) ==
    [jr EXCEPT !.st = "done", !.resp = resp,
               !.live = IF ReportRaises(resp) THEN "raised" ELSE "returned",
               !.appends = Append(@, jr.reports[Len(jr.reports)])]
ProcessOneEnd(jr, resp, diskOk) ==
    IF ~ReportRaises(resp)
    THEN [jr EXCEPT !.st = "done", !.resp = resp, !.live = "returned"]
    ELSE [jr EXCEPT !.st = "done", !.resp = resp, !.live = "raised",
                    !.appends = Append(@, jr.reports[Len(jr.reports)]),
                    !.appendFailed = ~diskOk, !.exc = ~diskOk]

\* _run_guarded: the live report has answered; _process_one ends and the
\* finally clause releases a permit.
ReportDone(j, resp, diskOk) ==
    /\ job[j].st = "report"
    /\ LET end == ProcessOneEnd(job[j], resp, diskOk)
           item == job[j].reports[Len(job[j].reports)]
           wrote == Len(end.appends) > Len(job[j].appends) /\ ~end.appendFailed
       IN  /\ job' = [job EXCEPT ![j] = [end EXCEPT !.rel = Append(@, sem)]]
           /\ OBX' = IF wrote THEN append(OBX, item) ELSE OBX
           /\ appended' = IF wrote THEN appended \cup {item.job_id} ELSE appended
           /\ acked' = IF end.live = "returned" /\ Accepted(resp)
                       THEN acked \cup {item.job_id} ELSE acked
    /\ semValue' = Release(semValue)
    /\ UNCHANGED <<callers, pc, items, todo, waitSem, tasks, sem, assignment,
                   handed, updates, flushed, ops, hb, pushed, claimReq, botVars, laterVars, ended, before, pluginVars>>

\* ------------------------------------------------------------------ bot
\* Answers to POST /bots/register: the registration with status 200, 201 or
\* 202, or an error body with status 400 or 503.
Registration(n) ==
    [bot_id |-> "bot_1", auth |-> [access_token |-> "tok_1"],
     assignment |-> [operations |-> <<"sum">>, max_concurrency |-> n]]
RegisterResponses ==
    {[status |-> s, data |-> Registration(n)] : s \in {200, 201, 202}, n \in 1..MaxConc}
    \cup {[status |-> s, data |-> [error |-> "rejected"]] : s \in {400, 503}}

\* ApiClient.register once the answer is there: 200 and 201 store the
\* access token and return the body, any other status raises.
registerAny2xx(tok, resp) ==
    IF resp.status \in 200..299
    THEN [raises |-> FALSE, token |-> resp.data.auth.access_token]
    ELSE [raises |-> TRUE, token |-> tok]
register(tok, resp) ==
    IF resp.status \in {200, 201}
    THEN [raises |-> FALSE, token |-> resp.data.auth.access_token]
    ELSE [raises |-> TRUE, token |-> tok]

\* Bot._register: bot_id and the scheduler are set from the data that
\* api.register returned, and only when it returned.
BotRegisterEager(raises, resp) ==
    [bot_id |-> IF "bot_id" \in DOMAIN resp.data THEN resp.data.bot_id ELSE "none",
     scheduler |-> ~raises]
BotRegister(raises, resp) ==
    IF raises THEN [bot_id |-> "none", scheduler |-> FALSE]
    ELSE [bot_id |-> resp.data.bot_id, scheduler |-> TRUE]

\* Bot.start: the register call is answered. On success _register builds
\* the scheduler, start spawns the heartbeat task and enters the run loop;
\* otherwise the error leaves start.
Register(resp) ==
    /\ boot = "register"
    /\ LET r == register(token, resp)
           b == BotRegister(r.raises, resp)
       IN  /\ token' = r.token
           /\ bot_id' = b.bot_id
           /\ scheduler' = b.scheduler
           /\ IF r.raises
              THEN /\ boot' = "failed"
                   /\ UNCHANGED <<assignment, ops, semValue, sem, hb, callers>>
              ELSE LET a == IF "assignment" \in DOMAIN resp.data
                            THEN resp.data.assignment ELSE assignment
                   IN  /\ assignment' = a
                       /\ ops' = a.operations
                       /\ semValue' = <<a.max_concurrency>>
                       /\ sem' = 1
                       /\ hb' = "sleep"
                       /\ callers' = {"run"}
                       /\ boot' = "run"
    /\ UNCHANGED <<pc, items, todo, waitSem, tasks, job, OBX, acked, handed,
                   updates, appended, flushed, pushed, claimReq, laterVars, ended, before, pluginVars>>

\* Bot.start: the register call raised (no answer).
RegisterRaise ==
    /\ boot = "register"
    /\ boot' = "failed"
    /\ UNCHANGED <<callers, pc, items, todo, waitSem, tasks, job, semValue, sem,
                   assignment, OBX, acked, handed, updates, appended, flushed,
                   ops, hb, pushed, claimReq, bot_id, token, scheduler, laterVars, ended, before, pluginVars>>

\* Assignments a heartbeat response can carry.
Assignments ==
    {[operations |-> <<"sum", "subtract">>, max_concurrency |-> m] : m \in 1..MaxConc}

\* A heartbeat answer whose body is the JSON value null.
Null == [null |-> TRUE]

\* Heartbeat responses: with a replacement assignment while the dispatcher
\* has one to push, or without, or not an object at all.
HeartbeatResponses ==
    {[lease_extended_to |-> "later"], Null}
    \cup (IF updates > 0 THEN {[assignment |-> a] : a \in Assignments} ELSE {})

\* _heartbeat_loop: whatever the try block did, returned or raised, the
\* loop sleeps and goes round again.
AfterBeatDies(raised) == IF raised THEN "none" ELSE "sleep"
AfterBeat(raised) == "sleep"

\* _heartbeat_loop: self.scheduler.ops = self.assignment["operations"].
SchedulerOpsKept(old, a) == old
SchedulerOps(old, a) == a.operations

\* _heartbeat_loop: self.assignment["operations"] raises KeyError without
\* that key, and asyncio.Semaphore(self.assignment["max_concurrency"]) raises
\* without that key (KeyError) or for a negative value (ValueError).
OpsThere(a) == "operations" \in DOMAIN a
SemAccepts(a) == "max_concurrency" \in DOMAIN a /\ a.max_concurrency >= 0

\* _heartbeat_loop: asyncio.Semaphore(n) is a new object with n permits,
\* next to the semaphores there are; none of those is touched.
SemaphoreResized(values, n) == [values EXCEPT ![Len(values)] = n]
Semaphore(values, n) == Append(values, n)

\* _heartbeat_loop: the sleep is over, api.heartbeat is called.
HeartbeatCall ==
    /\ hb = "sleep"
    /\ hb' = "call"
    /\ UNCHANGED <<callers, pc, items, todo, waitSem, tasks, job, semValue, sem,
                   assignment, OBX, acked, handed, updates, appended, flushed,
                   ops, pushed, claimReq, botVars, laterVars, ended, before, pluginVars>>

\* _heartbeat_loop: a response has come. If it carries an assignment, it
\* replaces Bot.assignment and the scheduler gets the new ops and a fresh
\* semaphore of that size, statement by statement: an assignment that makes
\* one of them raise leaves the later ones undone, and the error is
\* swallowed. A response that is no object raises in the membership test.
Heartbeat(resp) ==
    /\ hb = "call"
    /\ IF resp = Null
       THEN /\ hb' = AfterBeat(TRUE)
            /\ UNCHANGED <<assignment, ops, semValue, sem, updates, pushed>>
       ELSE IF "assignment" \in DOMAIN resp
            THEN LET a == resp.assignment
                     opsSet == scheduler /\ OpsThere(a)
                     semSet == opsSet /\ SemAccepts(a)
                 IN  /\ assignment' = a
                     /\ ops' = IF opsSet THEN SchedulerOps(ops, a) ELSE ops
                     /\ semValue' = IF semSet THEN Semaphore(semValue, a.max_concurrency)
                                    ELSE semValue
                     /\ sem' = IF semSet THEN Len(semValue') ELSE sem
                     /\ hb' = AfterBeat(scheduler /\ ~semSet)
                     /\ updates' = updates - 1
                     /\ pushed' = a
            ELSE /\ hb' = AfterBeat(FALSE)
                 /\ UNCHANGED <<assignment, ops, semValue, sem, updates, pushed>>
    /\ UNCHANGED <<callers, pc, items, todo, waitSem, tasks, job, OBX, acked,
                   handed, appended, flushed, claimReq, botVars, laterVars, ended, before, pluginVars>>

\* _heartbeat_loop: api.heartbeat raised; the error is swallowed.
HeartbeatRaise ==
    /\ hb = "call"
    /\ hb' = AfterBeat(TRUE)
    /\ UNCHANGED <<callers, pc, items, todo, waitSem, tasks, job, semValue, sem,
                   assignment, OBX, acked, handed, updates, appended, flushed,
                   ops, pushed, claimReq, botVars, laterVars, ended, before, pluginVars>>

\* The scheduler: ticks and the job tasks they spawn.
SchedulerNext ==
    \/ \E t \in Ticks : TickStart(t)
    \/ \E t \in Ticks, resp \in Responses, diskOk \in BOOLEAN : FlushReport(t, resp, diskOk)
    \/ \E t \in Ticks : ClaimRaise(t)
    \/ \E t \in Ticks : \E body \in ClaimBodies(handed) : ClaimReturn(t, claim(body))
    \/ \E t \in Ticks : AcquireWake(t)
    \/ \E t \in Ticks : GatherReturn(t)
    \/ \E t \in Ticks : GatherRaise(t)
    \/ \E j \in JobIds : RunJob(j)
    \/ \E j \in JobIds, resp \in Responses, diskOk \in BOOLEAN : ReportDone(j, resp, diskOk)

Next ==
    \/ \E resp \in RegisterResponses : Register(resp)
    \/ RegisterRaise
    \/ SchedulerNext
    \/ HeartbeatCall
    \/ \E resp \in HeartbeatResponses : Heartbeat(resp)
    \/ HeartbeatRaise

\* The agent: start(), then one run loop, and a heartbeat loop that may
\* change the assignment.
Spec == Init /\ [][Next]_vars

\* What the event loop and the claim's premises grant: a tick that can take
\* its next step takes it, a task that can run runs, and a flush report
\* that is tried again and again is eventually answered 2xx.
TickStep(t) ==
    \/ TickStart(t)
    \/ \E resp \in Responses, diskOk \in BOOLEAN : FlushReport(t, resp, diskOk)
    \/ ClaimRaise(t)
    \/ \E body \in ClaimBodies(handed) : ClaimReturn(t, claim(body))
    \/ AcquireWake(t)
    \/ GatherReturn(t)
    \/ GatherRaise(t)

JobStep(j) ==
    RunJob(j) \/ \E resp \in Responses, diskOk \in BOOLEAN : ReportDone(j, resp, diskOk)

\* Every network call ends and every sleep is over at some time.
BeatStep ==
    HeartbeatCall \/ HeartbeatRaise \/ \E resp \in HeartbeatResponses : Heartbeat(resp)

StartStep == RegisterRaise \/ \E resp \in RegisterResponses : Register(resp)

Fairness ==
    /\ \A t \in Ticks : WF_vars(TickStep(t))
    /\ \A t \in Ticks : SF_vars(FlushReport(t, "2xx", TRUE))
    /\ \A j \in JobIds : WF_vars(JobStep(j))
    /\ WF_vars(BeatStep)
    /\ WF_vars(StartStep)

FairSpec == Init /\ [][Next]_vars /\ Fairness

\* The agent with a dispatcher that never replaces the assignment.
InitSteady ==
    /\ Quiet({}, 0)
    /\ Unregistered
    /\ OBX \in LeftOver
    /\ NoLater
    /\ Loaded

SteadySpec == InitSteady /\ [][Next]_vars /\ Fairness

\* Several tick() calls in flight on one scheduler whose semaphore is never
\* replaced.
ConcSpec == InitConc /\ [][SchedulerNext]_vars

\* -------------------------------------------------- malformed assignments
\* Assignments a dispatcher must not send: one key missing, or a negative
\* max_concurrency.
MalformedAssignments ==
    {[operations |-> <<"sum", "subtract">>],
     [max_concurrency |-> 1],
     [operations |-> <<"sum", "subtract">>, max_concurrency |-> -1]}

MalformedResponses ==
    IF updates > 0 THEN {[assignment |-> a] : a \in MalformedAssignments} ELSE {}

\* _heartbeat_loop: a response with a malformed assignment has come.
MalformedHeartbeat == \E resp \in MalformedResponses : Heartbeat(resp)

SloppyNext == Next \/ MalformedHeartbeat

\* The agent with a dispatcher that may also push a malformed assignment.
SloppySpec == Init /\ [][SloppyNext]_vars

\* ----------------------------------------------------- paused assignments
\* state.Assignment has paused: bool = False; a dispatcher may set it.
PausedAssignments ==
    {[operations |-> <<"sum", "subtract">>, max_concurrency |-> m, paused |-> TRUE] :
        m \in 1..MaxConc}

PausedResponses ==
    IF updates > 0 THEN {[assignment |-> a] : a \in PausedAssignments} ELSE {}

\* Bot.assignment says paused.
Paused == "paused" \in DOMAIN assignment /\ assignment.paused

\* _heartbeat_loop: a response with a paused assignment has come.
PausedHeartbeat == \E resp \in PausedResponses : Heartbeat(resp)

PauseNext == Next \/ PausedHeartbeat

\* The agent with a dispatcher that may pause it.
PauseSpec == Init /\ [][PauseNext]_vars

\* --------------------------------------------------------------- shutdown
\* SIGINT or SIGTERM reaches the process. Nothing installs a handler and
\* _run_loop is `while True` without an exit condition, so the signal has
\* its default effect: the process ends where it is, with its tick, its job
\* tasks and its heartbeat task.
Shutdown ==
    /\ boot = "run"
    /\ boot' = "stopped"
    /\ callers' = {}
    /\ hb' = "none"
    /\ UNCHANGED <<pc, items, todo, waitSem, tasks, job, semValue, sem,
                   assignment, OBX, acked, handed, updates, appended, flushed,
                   ops, pushed, claimReq, bot_id, token, scheduler, laterVars,
                   ended, before, pluginVars>>

\* The agent while the process lives.
Alive == boot # "stopped" /\ Next

SignalNext == Alive \/ Shutdown

\* The agent and a shutdown signal that can arrive at any time.
SignalSpec == Init /\ [][SignalNext]_vars

\* ----------------------------------------------------- registry, by itself
\* Op names and handlers that modules and tests register.
OpNames == {"sum", "duplicate"}
HandlerFns == {"handler1", "handler2"}

\* The module jobs has been imported, nothing is registered yet.
InitRegistry ==
    /\ Quiet({}, 0)
    /\ Unregistered
    /\ OBX = Unlinked
    /\ NoLater
    /\ REGISTRY = {}
    /\ regs = <<>>

\* @op(name) is applied to fn.
Op(name, fn) ==
    /\ Len(regs) < MaxRegs
    /\ REGISTRY' = op(REGISTRY, name, fn)
    /\ regs' = Append(regs, <<name, fn>>)
    /\ UNCHANGED <<callers, pc, items, todo, waitSem, tasks, job, semValue, sem,
                   assignment, OBX, acked, handed, updates, appended, flushed,
                   ops, hb, pushed, claimReq, botVars, laterVars, ended, before>>

RegistryNext == \E name \in OpNames, fn \in HandlerFns : Op(name, fn)

RegistrySpec == InitRegistry /\ [][RegistryNext]_vars

\* ------------------------------------------------------- outbox, by itself
\* The n-th report a process puts in the outbox.
Entry(n) ==
    [job_id |-> n, action |-> "complete",
     payload |-> [instance_id |-> InstanceId, result |-> [result |-> n]]]

\* The file after outbox.append(Entry(1)), ..., outbox.append(Entry(n)).
Appended(n) == [exists |-> n > 0, lines |-> [i \in 1..n |-> dumps(Entry(i))]]

\* A process that has appended some entries since the file was last
\* drained.
InitOutbox ==
    /\ Quiet({}, 0)
    /\ Unregistered
    /\ \E n \in 0..(MaxAppends - 1) :
          /\ OBX = Appended(n)
          /\ written = [i \in 1..n |-> Entry(i)]
    /\ proc = "first"
    /\ got = <<>>
    /\ lastDrain = NoDrain
    /\ Loaded

\* The values of max_items that drain is called with.
MaxItemsArgs == {0, 1, 2, DefaultMaxItems}

\* outbox.append(entry) is called and returns.
OutboxAppend ==
    /\ proc = "first"
    /\ Len(written) < MaxAppends
    /\ LET entry == Entry(Len(written) + 1)
       IN  /\ OBX' = append(OBX, entry)
           /\ written' = Append(written, entry)
    /\ got' = <<>>
    /\ lastDrain' = NoDrain
    /\ UNCHANGED <<callers, pc, items, todo, waitSem, tasks, job, semValue, sem,
                   assignment, acked, handed, updates, appended, flushed,
                   ops, hb, pushed, claimReq, botVars, proc, ended, before, pluginVars>>

\* The process calls outbox.drain(max_items) and the call returns.
OutboxDrain(max_items) ==
    /\ proc = "first"
    /\ got' = drain(OBX, max_items)
    /\ OBX' = DrainLeaves(OBX, FALSE)
    /\ lastDrain' = [max_items |-> max_items, held |-> Len(OBX.lines)]
    /\ written' = <<>>
    /\ UNCHANGED <<callers, pc, items, todo, waitSem, tasks, job, semValue, sem,
                   assignment, acked, handed, updates, appended, flushed,
                   ops, hb, pushed, claimReq, botVars, proc, ended, before, pluginVars>>

\* The process exits; the file stays.
ProcessExit ==
    /\ proc = "first"
    /\ proc' = "exited"
    /\ UNCHANGED <<callers, pc, items, todo, waitSem, tasks, job, semValue, sem,
                   assignment, OBX, acked, handed, updates, appended, flushed,
                   ops, hb, pushed, claimReq, botVars, written, got, lastDrain, ended, before, pluginVars>>

\* A later process calls outbox.drain().
LaterDrain ==
    /\ proc = "exited"
    /\ proc' = "later"
    /\ got' = drain(OBX, DefaultMaxItems)
    /\ OBX' = DrainLeaves(OBX, FALSE)
    /\ lastDrain' = [max_items |-> DefaultMaxItems, held |-> Len(OBX.lines)]
    /\ UNCHANGED <<callers, pc, items, todo, waitSem, tasks, job, semValue, sem,
                   assignment, acked, handed, updates, appended, flushed,
                   ops, hb, pushed, claimReq, botVars, written, ended, before, pluginVars>>

OutboxNext ==
    \/ OutboxAppend
    \/ \E max_items \in MaxItemsArgs : OutboxDrain(max_items)
    \/ ProcessExit
    \/ LaterDrain

OutboxSpec == InitOutbox /\ [][OutboxNext]_vars

\* ---------------------------------------------------------------- claims
Done == {j \in JobIds : job[j].st = "done"}

\* C1: for a scheduler whose semaphore is never replaced, the number of
\* jobs that hold a permit (acquired, not yet released) never exceeds the
\* max_conc it was built with, whatever ticks run and however they overlap.
C1_BoundedConcurrency ==
    Len(semValue) = 1 => Cardinality(InFlight) <= assignment.max_concurrency

\* Two overlapping ticks each have a job in flight, the cap of 2 is
\* reached and a tick is suspended waiting for a permit.
C1_Witness ==
    /\ Len(semValue) = 1
    /\ assignment.max_concurrency = 2
    /\ Cardinality(InFlight) = 2
    /\ \A t \in Ticks : tasks[t] \cap InFlight # {}
    /\ \E t \in Ticks : pc[t] = "acquire"

\* C2: after the heartbeat loop has installed an assignment with
\* max_concurrency = M, once no job holds a permit of an older semaphore
\* any more, the number of jobs in flight is at most M.
C2_BoundedAfterReconfiguration ==
    (Len(semValue) > 1 /\ \A j \in InFlight : job[j].sem = sem)
        => Cardinality(InFlight) <= assignment.max_concurrency

\* C3: a job with id, op and payload gets exactly one live report call,
\* 'complete' if the handler returned and 'fail' if it raised; its triple
\* goes to outbox.append at most once, and only when that call raised.
C3_NoDuplicateTerminalReport ==
    \A j \in JobIds :
        (job[j].st \in {"report", "done"} /\ WellFormed(job[j].raw)) =>
            /\ Len(job[j].reports) = 1
            /\ job[j].reports[1].job_id = job[j].raw.id
            /\ job[j].out = "returned" <=> job[j].reports[1].action = "complete"
            /\ job[j].out = "raised" <=> job[j].reports[1].action = "fail"
            /\ Len(job[j].appends) <= 1
            /\ job[j].appends # <<>> => job[j].live = "raised"
            /\ job[j].st = "report" => job[j].appends = <<>>

\* A handler raised, the 'fail' report raised as well and went to the
\* outbox once; another job completed and was reported live.
C3_Witness ==
    /\ \E j \in Done : /\ job[j].out = "raised"
                        /\ job[j].live = "raised"
                        /\ Len(job[j].appends) = 1
    /\ \E j \in Done : /\ job[j].out = "returned"
                        /\ job[j].live = "returned"
                        /\ job[j].reports[1].action = "complete"

\* A terminal report has been produced for job j as the scheduler sees it:
\* its live report returned, or its triple was written to the outbox.
ReportedLive(j) == job[j].live = "returned"
WrittenToOutbox(j) == Len(job[j].appends) = 1 /\ ~job[j].appendFailed

C5_OutboxFallback ==
    \A j \in Done :
        job[j].live = "raised" =>
            /\ job[j].appends = job[j].reports
            /\ ~job[j].exc
            /\ Len(job[j].rel) = 1

\* C6: a live report answered with a non-2xx status counts as a delivery
\* failure: the call raises and the triple goes to the outbox.
C6_Non2xxIsFailure ==
    \A j \in Done :
        (WellFormed(job[j].raw) /\ job[j].resp # "2xx") =>
            /\ job[j].live = "raised"
            /\ job[j].appends = job[j].reports

\* The decoded entries of the outbox file, and whether it holds one for j.
OutboxItems == [i \in 1..Len(OBX.lines) |-> loads(OBX.lines[i])]
InOutboxFile(j) == \E i \in 1..Len(OBX.lines) : OutboxItems[i].job_id = j

\* C7: in a run in which the run loop keeps starting ticks, every flush
\* report either raises or is answered 2xx, and no flush fails to put an
\* entry back (and, by the fairness of FairSpec, a flush report that is
\* tried again and again is eventually answered 2xx), every terminal report
\* that was ever put in the outbox is eventually delivered.
C7_AtLeastOnceDelivery ==
    (/\ []<>(pc["run"] = "idle")
     /\ []<>(pc["run"] = "claim")
     /\ [](\A t \in Ticks : ~flushed[t].putFailed /\ ~flushed[t].rejected))
        => \A j \in JobIds : [](j \in appended => <>(j \in acked))

\* C8: when a flush stops at the failing report of its k-th entry, the
\* outbox then holds the drained entries from the k-th on, in their order.
C8_FlushKeepsEntriesBehindFailure ==
    \A t \in Ticks :
        (pc[t] = "claim" /\ flushed[t].raised) =>
            LET f == flushed[t]
                drainedHere(e) == \E i \in 1..Len(f.drained) : f.drained[i] = e
            IN  SelectSeq(OutboxItems, drainedHere)
                    = SubSeq(f.drained, Len(f.tried), Len(f.drained))

\* C9: a flush reports the drained entries in outbox order; the first entry
\* whose report raises is handed to outbox.append once, no later entry is
\* reported in this flush, and entries reported before it are not put back.
C9_FlushAbortsAtFirstFailure ==
    \A t \in Ticks :
        LET f == flushed[t]
            n == Len(f.tried)
        IN  /\ n <= Len(f.drained)
            /\ f.tried = SubSeq(f.drained, 1, n)
            /\ pc[t] = "flush" => items[t] = SubSeq(f.drained, n + 1, Len(f.drained))
            /\ ~f.raised => f.put = <<>>
            /\ f.raised =>
                  /\ f.put = <<f.tried[n]>>
                  /\ pc[t] # "flush"
                  /\ items[t] = <<>>
                  /\ (pc[t] = "claim" /\ ~f.putFailed) => InOutboxFile(f.tried[n].job_id)

\* A flush drained three entries, delivered the first and stopped at the
\* second, which it put back.
C9_Witness ==
    \E t \in Ticks :
        /\ Len(flushed[t].drained) = 3
        /\ Len(flushed[t].tried) = 2
        /\ flushed[t].raised
        /\ flushed[t].put = <<flushed[t].drained[2]>>
        /\ pc[t] = "claim"

\* C10: at every moment, every terminal report that was put in the outbox
\* and has not been acknowledged yet is in the outbox file.
C10_PendingReportsAreOnDisk ==
    \A j \in appended \ acked : InOutboxFile(j)

\* C11: when a process has appended entries and then exited before any
\* drain, the drain of a later process returns every entry whose append had
\* returned, in append order.
C11_OutboxDurability == proc = "later" => got = written

\* C12: a claim request is in flight only in a tick whose drain returned
\* and whose flush is over (every drained entry reported, or the flush left
\* at a report that raised); while the flush reports no claim is out; a
\* tick whose drain raised has ended without a claim.
C12_FlushBeforeClaim ==
    \A t \in Ticks :
        /\ pc[t] = "claim" <=> claimReq[t] # NoRequest
        /\ claimReq[t] # NoRequest =>
              /\ flushed[t].drain = "returned"
              /\ items[t] = <<>>
              /\ flushed[t].raised \/ flushed[t].tried = flushed[t].drained
        /\ pc[t] = "flush" => flushed[t].drain = "returned"
        /\ flushed[t].drain = "raised" => pc[t] = "idle"

\* The claim of a tick is out after its flush reported two drained entries.
C12_Witness ==
    /\ claimReq["run"] # NoRequest
    /\ Len(flushed["run"].drained) = 2
    /\ flushed["run"].tried = flushed["run"].drained

\* C13: when the handler of a job raised, the job's task has sent exactly
\* one report, 'fail' with {instance_id, error: str(exception)}, released
\* its permit once and raised nothing, so that tick() does not raise.
C13_HandlerIsolation ==
    \A j \in Done :
        (WellFormed(job[j].raw) /\ Handlers(REGISTRY, job[j].raw.op) # {} /\ job[j].out = "raised") =>
            /\ job[j].reports =
                  <<[job_id |-> job[j].raw.id, action |-> "fail",
                     payload |-> [instance_id |-> InstanceId,
                                  error |-> run_job(job[j].raw).error]]>>
            /\ Len(job[j].rel) = 1
            /\ ~job[j].exc

\* C14: a job whose op has no handler is reported once with 'fail' and the
\* error 'No handler for op=<op>', and its task raises nothing, so that
\* tick() does not raise.
C14_MissingHandlerIsJobFailure ==
    \A j \in Done :
        (WellFormed(job[j].raw) /\ Handlers(REGISTRY, job[j].raw.op) = {}) =>
            /\ job[j].out = "raised"
            /\ job[j].reports =
                  <<[job_id |-> job[j].raw.id, action |-> "fail",
                     payload |-> [instance_id |-> InstanceId,
                                  error |-> <<"No handler for op=", job[j].raw.op>>]]>>
            /\ ~job[j].exc

\* C15: once the run loop has been entered, tick() is invoked infinitely
\* often: the loop is again and again between two ticks and again and
\* again inside one.
C15_TickIsolation ==
    <>(boot = "run") =>
        /\ []<>(boot = "run" /\ pc["run"] = "idle")
        /\ []<>(pc["run"] # "idle")

\* C16: a heartbeat response with an assignment A leaves agent.assignment
\* = A, scheduler.ops = A.operations and a fresh semaphore of
\* A.max_concurrency permits as the scheduler's; a heartbeat step without
\* an assignment changes none of them; every claim request carries the
\* operations of the current assignment and limit = claim_batch_size.
C16_AssignmentUpdate ==
    /\ [](pushed # NoPush => assignment = pushed /\ ops = pushed.operations)
    /\ [][updates' # updates =>
            /\ assignment' = pushed'
            /\ ops' = pushed'.operations
            /\ sem' = Len(semValue) + 1
            /\ semValue' = Append(semValue, pushed'.max_concurrency)]_vars
    /\ [][(hb = "call" /\ hb' # "call" /\ updates' = updates) =>
            UNCHANGED <<assignment, ops, sem, semValue>>]_vars
    /\ [][\A t \in Ticks :
            (claimReq[t] = NoRequest /\ claimReq'[t] # NoRequest) =>
                claimReq'[t] = [bot_id |-> bot_id,
                                operations |-> assignment.operations,
                                limit |-> claim_batch_size]]_vars

\* After a heartbeat has replaced the assignment, a claim is out with the
\* new operations.
C16_Witness ==
    /\ pushed # NoPush
    /\ claimReq["run"] # NoRequest
    /\ claimReq["run"].operations = <<"sum", "subtract">>
    /\ claimReq["run"].limit = claim_batch_size

C18_RegisterFailureIsHard ==
    /\ [](boot = "failed" =>
            /\ token = "none"
            /\ bot_id = "none"
            /\ ~scheduler
            /\ hb = "none"
            /\ callers = {}
            /\ \A t \in Ticks : pc[t] = "idle")
    /\ [][\A resp \in RegisterResponses :
            Register(resp) =>
                /\ resp.status \in {200, 201} <=> token' # "none"
                /\ resp.status \notin {200, 201} <=> boot' = "failed"]_vars
    /\ [][token' # token => boot = "register" /\ boot' = "run"]_vars

\* start() has ended with the register error.
C18_Witness == boot = "failed" /\ token = "none" /\ ~scheduler

\* C19: once spawned the heartbeat loop never ends; it sends heartbeats
\* again and again and each call is answered or raises and the loop goes
\* back to sleep, whatever the run loop's tick is doing.
C19_HeartbeatNeverDies ==
    /\ [](boot = "run" => hb # "none")
    /\ [](boot = "run" => <>(hb = "call"))
    /\ [](hb = "call" => <>(hb = "sleep"))

\* A heartbeat is out while the tick waits for a permit.
C19_Witness == hb = "call" /\ pc["run"] = "acquire"

\* C20: while a tick of the run loop is in its flush or its claim, no job
\* task of an earlier tick is unfinished.
C20_TickNeverOverlapsSuccessor ==
    pc["run"] \in {"flush", "claim"} => InFlight = {}

\* C21: a job whose live report failed (was not answered 2xx) has, once its
\* task has ended and before the next drain, exactly one entry in the outbox
\* file, the triple it reported; and an entry the dispatcher has
\* acknowledged is neither in the file nor waiting in a flush to be reported
\* again.
C21_NetworkFlap ==
    /\ \A j \in Done :
          (WellFormed(job[j].raw) /\ job[j].resp # "2xx") =>
              /\ Cardinality({i \in 1..Len(OBX.lines) :
                                 /\ Parses(OBX.lines[i])
                                 /\ loads(OBX.lines[i]).job_id = j}) = 1
              /\ \E i \in 1..Len(OBX.lines) : OBX.lines[i] = dumps(job[j].reports[1])
    /\ \A i \in 1..Len(OBX.lines) :
          Parses(OBX.lines[i]) => loads(OBX.lines[i]).job_id \notin acked
    /\ \A t \in Ticks :
          \A i \in 1..Len(items[t]) : items[t][i].job_id \notin acked

\* C22: when the agent has stopped after a shutdown signal, the tick that
\* was in progress has finished, no job is left in flight without its
\* report, and the heartbeat task is gone.
C22_DrainingOnShutdown ==
    boot = "stopped" =>
        /\ \A t \in Ticks : pc[t] = "idle"
        /\ InFlight = {}
        /\ hb = "none"

\* C23: drain(max_items = k) on the file that holds the entries a1..an
\* appended since the last drain returns a1..a_min(n,k) in that order and
\* leaves no file, also when n > k; on an absent file it returns the empty
\* sequence and creates nothing.
C23_ResultOfDrain ==
    [][\A k \in MaxItemsArgs :
          OutboxDrain(k) =>
              /\ got' = SubSeq(written, 1, Min(Len(written), k))
              /\ ~OBX'.exists
              /\ OBX'.lines = <<>>]_vars

\* A drain with max_items = 2 on a file of more than two entries.
C23_Witness ==
    /\ lastDrain.max_items = 2
    /\ lastDrain.held > 2
    /\ got = <<Entry(1), Entry(2)>>
    /\ ~OBX.exists

\* C24: the outbox file exists if and only if an entry has been appended
\* since the last drain: every drain leaves it absent, every append leaves
\* it present.
C24_FilePresence ==
    /\ proc \in {"first", "exited"} => (OBX.exists <=> written # <<>>)
    /\ lastDrain # NoDrain => ~OBX.exists
    /\ proc = "later" => ~OBX.exists

\* A drain has just removed a file that appends had created.
C24_Witness ==
    /\ proc = "first"
    /\ lastDrain.held > 0
    /\ written = <<>>
    /\ ~OBX.exists

\* C25: when a line of the outbox file does not parse, drain raises with
\* the file already removed, the tick ends there with that error, having
\* reported no entry of the file and issued no claim; the tick after it
\* drains an empty outbox and goes on to its claim.
C25_CorruptOutbox ==
    /\ [](\A t \in Ticks :
            flushed[t].drain = "raised" =>
                /\ ~OBX.exists
                /\ pc[t] = "idle" /\ ended[t] = "raised"
                /\ flushed[t].tried = <<>> /\ items[t] = <<>>
                /\ claimReq[t] = NoRequest /\ handed = 0)
    /\ [](OldEntry.job_id \notin acked)
    /\ [][\A t \in Ticks :
            (flushed[t].drain = "raised" /\ flushed'[t] # flushed[t]) =>
                /\ flushed'[t].drain = "returned"
                /\ flushed'[t].drained = <<>>
                /\ pc'[t] = "claim"]_vars

\* The first tick of a process has found a file with a torn line.
C25_Witness ==
    /\ flushed["run"].drain = "raised"
    /\ ended["run"] = "raised"
    /\ ~OBX.exists

\* C26: when a job's live report raises and the outbox append that follows
\* raises too, the error stays inside the job's task: the task ends without
\* an exception for gather to raise from tick, and has released its permit
\* once.
C26_AppendFailureSwallowed ==
    \A j \in Done :
        (WellFormed(job[j].raw) /\ job[j].appendFailed) =>
            /\ ~job[j].exc
            /\ Len(job[j].rel) = 1

\* C27: when tick raises out of gather and its batch held an entry without
\* id, op or payload, every task of the batch has ended and released its
\* permit, and every well-formed entry has had its handler run and its
\* terminal report produced.
C27_MalformedEntryAbortsOnlyTick ==
    [][\A t \in Ticks :
          (/\ pc[t] = "gather"
           /\ ended'[t] = "raised"
           /\ \E j \in tasks[t] : ~WellFormed(job[j].raw)) =>
              \A j \in tasks[t] :
                  /\ job[j].st = "done"
                  /\ Len(job[j].rel) = 1
                  /\ WellFormed(job[j].raw) => Len(job[j].reports) = 1]_vars

\* C28: when the claim call raises, tick ends with that error, and when it
\* returns an empty batch or a body without a jobs key, tick returns; in
\* both cases no task is created, no permit is taken and no report is sent
\* or put in the outbox. After a tick that raised the run loop starts
\* another one.
C28_ClaimFailureEndsTick ==
    /\ [][\A t \in Ticks :
            LET nothingRuns ==
                    /\ pc'[t] = "idle"
                    /\ UNCHANGED <<job, semValue, tasks, todo, acked, OBX, appended, handed>>
            IN  /\ ClaimRaise(t) => (ended'[t] = "raised" /\ nothingRuns)
                /\ \A body \in ClaimBodies(handed) :
                      (claim(body) = <<>> /\ ClaimReturn(t, claim(body))) =>
                          (ended'[t] = "returned" /\ nothingRuns)]_vars
    /\ [](ended["run"] = "raised" => <>(ended["run"] = "none"))

\* A tick whose claim raised has ended, and nothing of it is left.
C28_Witness ==
    /\ ended["run"] = "raised"
    /\ pc["run"] = "idle"
    /\ flushed["run"].drain = "none"
    /\ handed = 0
    /\ InFlight = {}

\* The registrations made for an op name, oldest first.
RegsOf(name) == SelectSeq(regs, LAMBDA r : r[1] = name)

\* C29: after any sequence of registrations an op name has at most one
\* handler, the one of the latest registration for that name, and no
\* handler when there was none; a registration leaves the handlers of the
\* other names as they were.
C29_RegistryLastWriterWins ==
    /\ [](\A name \in OpNames :
            /\ Cardinality(Handlers(REGISTRY, name)) <= 1
            /\ Handlers(REGISTRY, name) =
                   IF RegsOf(name) = <<>> THEN {}
                   ELSE {RegsOf(name)[Len(RegsOf(name))][2]})
    /\ [][\A name \in OpNames, fn \in HandlerFns :
            Op(name, fn) =>
                \A other \in OpNames \ {name} :
                    Handlers(REGISTRY', other) = Handlers(REGISTRY, other)]_vars

\* An op name registered twice with different handlers, another name once.
C29_Witness ==
    /\ regs = <<<<"duplicate", "handler1">>, <<"sum", "handler1">>,
                <<"duplicate", "handler2">>>>
    /\ Handlers(REGISTRY, "duplicate") = {"handler2"}

\* C30: a job that has ended has released exactly one permit, to the
\* semaphore its permit was acquired from, also when the heartbeat loop has
\* replaced the scheduler's semaphore in between; and the scheduler's
\* semaphore never has more permits available than the max_concurrency it
\* was made with.
C30_PermitReturnsToItsPool ==
    /\ \A j \in Done : job[j].rel = <<job[j].sem>>
    /\ scheduler => semValue[sem] <= assignment.max_concurrency

\* C31: an assignment received by heartbeat is applied all or nothing.
\* Whenever the scheduler is there, its ops are the operations of
\* Bot.assignment; and a heartbeat step either leaves Bot.assignment, the
\* scheduler's ops and its semaphore as they were, or replaces the three,
\* the fresh semaphore being sized from the new max_concurrency.
C31_AssignmentUpdateIsAtomic ==
    /\ [](scheduler => (OpsThere(assignment) /\ ops = assignment.operations))
    /\ [][(hb = "call" /\ hb' # "call") =>
            \/ UNCHANGED <<assignment, ops, sem, semValue>>
            \/ /\ OpsThere(assignment') /\ SemAccepts(assignment')
               /\ ops' = assignment'.operations
               /\ sem' = Len(semValue) + 1
               /\ semValue' = Append(semValue, assignment'.max_concurrency)]_vars

\* A step in which caller t's tick() returns normally.
Returns(t) == pc[t] # "idle" /\ ended'[t] = "returned"

\* C32: while the semaphore is never replaced, available permits plus jobs
\* in flight equal max_conc in every state, and when a tick returns
\* normally the available permits equal their number when it was called.
C32_PermitConservation ==
    /\ [](Len(semValue) = 1 =>
             semValue[1] + Cardinality(InFlight) = assignment.max_concurrency)
    /\ [][\A t \in Ticks :
            (Len(semValue) = 1 /\ Returns(t)) => semValue'[1] = before[t]]_vars

\* C32 amended: while the semaphore is never replaced, available permits
\* plus jobs in flight equal max_conc in every state, and when a tick
\* returns normally each of its jobs has ended and released its permit
\* once, so that the available permits are max_conc less the permits held
\* by jobs of other ticks.
C32_OwnPermitsReleased ==
    /\ [](Len(semValue) = 1 =>
             semValue[1] + Cardinality(InFlight) = assignment.max_concurrency)
    /\ [][\A t \in Ticks :
            (Len(semValue) = 1 /\ Returns(t)) =>
                /\ \A j \in tasks[t] : job[j].st = "done" /\ job[j].rel = <<1>>
                /\ semValue'[1] = assignment.max_concurrency
                                    - Cardinality(InFlight \ tasks[t])]_vars

\* A tick is about to return normally from gather, its jobs having ended
\* with their permits released, while a job of another tick is in flight.
C32_Witness ==
    /\ Len(semValue) = 1
    /\ \E t \in Ticks :
          /\ pc[t] = "gather" /\ tasks[t] # {}
          /\ \A j \in tasks[t] : job[j].st = "done" /\ ~job[j].exc
          /\ InFlight # {}
          /\ semValue[1] < before[t]

\* The entries of its batch that caller t's tick has still to start.
Queued(t) == {todo[t][i].n : i \in 1..Len(todo[t])}

\* C33: every entry handed out in a claimed batch gets its task from exactly
\* one tick and has its handler called exactly once, never twice and never
\* skipped. An entry is either still queued in the tick that claimed it or
\* has got its task; no entry is queued or started by two ticks; a task is
\* created only for an entry that had none, and run_job is called only in
\* a task that has not called it yet; and every entry handed out is run in
\* the end.
C33_ExecutedExactlyOnce ==
    /\ [](\A n \in 1..handed :
            (job[n].st = "none") <=> (\E t \in Ticks : pc[t] = "acquire" /\ n \in Queued(t)))
    /\ [](\A t \in Ticks :
            /\ pc[t] # "acquire" => todo[t] = <<>>
            /\ Cardinality(Queued(t)) = Len(todo[t])
            /\ \A u \in Ticks \ {t} :
                  tasks[t] \cap tasks[u] = {} /\ Queued(t) \cap Queued(u) = {})
    /\ [](\A j \in JobIds :
            (job[j].st \in {"report", "done"} /\ WellFormed(job[j].raw)) =>
                (job[j].out # "none" /\ Len(job[j].reports) = 1))
    /\ [][\A j \in JobIds :
            /\ (job'[j].st = "spawned" /\ job'[j] # job[j]) => job[j].st = "none"
            /\ (job'[j].st = "report" /\ job'[j] # job[j]) =>
                   (job[j].st = "spawned" /\ job[j].out = "none")]_vars
    /\ \A n \in JobIds :
          [](n <= handed => <>(job[n].st \in {"report", "done", "gone"}))

\* C34: within one tick the entries of the batch get their permit and their
\* task in claim order: the entries still queued are in claim order and
\* every entry that has its task precedes every queued one. (Tasks end in
\* any order.)
C34_StartInClaimOrder ==
    \A t \in Ticks :
        /\ \A i \in 1..Len(todo[t]) : \A k \in 1..Len(todo[t]) :
              i < k => todo[t][i].n < todo[t][k].n
        /\ \A j \in tasks[t] : \A q \in Queued(t) : j < q

\* A tick has started the first two entries of its batch, and the second
\* has ended while the first is still in flight.
C34_Witness ==
    \E t \in Ticks : \E i \in tasks[t] : \E k \in tasks[t] :
        /\ i < k
        /\ job[k].st = "done" /\ WellFormed(job[k].raw)
        /\ job[i].st \in {"spawned", "report"}

\* A terminal report: action complete or fail, the scheduler's instance_id,
\* result exactly with complete and error exactly with fail.
Shaped(r) ==
    /\ DOMAIN r = {"job_id", "action", "payload"}
    /\ r.action \in {"complete", "fail"}
    /\ r.payload.instance_id = InstanceId
    /\ DOMAIN r.payload = IF r.action = "complete" THEN {"instance_id", "result"}
                          ELSE {"instance_id", "error"}

C36_PausedStopsClaiming ==
    [][\A t \in Ticks :
          (Paused /\ claimReq[t] = NoRequest) => claimReq'[t] = NoRequest]_vars

\* C37: a tick that waits for a permit gets one in the end and so comes to
\* its end, also when the heartbeat loop replaces the semaphore while it
\* waits; and after any assignment update the run loop issues a claim
\* again.
C37_ReconfigurationNeverWedges ==
    /\ \A t \in Ticks : [](pc[t] = "acquire" => <>(pc[t] = "idle"))
    /\ []((boot = "run" /\ Len(semValue) > 1) => <>(claimReq["run"] # NoRequest))

\* C38: the outbox file never holds two entries for one job id, and never
\* an entry for a job whose report the dispatcher has acknowledged; the same
\* is true of the entries a flush has drained and has still to send.
C38_OutboxHoldsNoDuplicate ==
    /\ \A i \in 1..Len(OBX.lines) : \A k \in 1..Len(OBX.lines) :
          (i # k /\ Parses(OBX.lines[i]) /\ Parses(OBX.lines[k])) =>
              OBX.lines[i].json.job_id # OBX.lines[k].json.job_id
    /\ \A i \in 1..Len(OBX.lines) :
          Parses(OBX.lines[i]) =>
              /\ OBX.lines[i].json.job_id \notin acked
              /\ \A t \in Ticks : \A k \in 1..Len(items[t]) :
                    items[t][k].job_id # OBX.lines[i].json.job_id
    /\ \A t \in Ticks : \A i \in 1..Len(items[t]) : \A k \in 1..Len(items[t]) :
          i # k => items[t][i].job_id # items[t][k].job_id

\* A flush drained the reports of two jobs: the first was acknowledged and
\* is gone from the file, the second raised again and is the one entry the
\* file holds.
C38_Witness ==
    \E t \in Ticks :
        /\ Len(flushed[t].tried) = 2
        /\ flushed[t].tried[1].job_id \in acked
        /\ flushed[t].put = <<flushed[t].tried[2]>>
        /\ Len(OBX.lines) = 1
        /\ Parses(OBX.lines[1])
        /\ OBX.lines[1].json.job_id = flushed[t].tried[2].job_id

\* A step in which a heartbeat response (or the error of the call) is
\* processed, and a step of a tick or of one of the tasks it created.
BeatProcessed == hb = "call" /\ hb' # "call"
TickActs ==
    \/ pc' # pc \/ items' # items \/ todo' # todo \/ tasks' # tasks
    \/ job' # job \/ flushed' # flushed \/ claimReq' # claimReq

\* C39: frame of the heartbeat step and of tick. Processing a heartbeat
\* response leaves bot_id and the token, the outbox file, the jobs in flight
\* and the permit count of every semaphore that existed before the step as
\* they were (it changes at most Bot.assignment, the scheduler's ops and
\* which semaphore is the scheduler's); and no step of a tick or of its
\* tasks changes Bot.assignment, the scheduler's ops or bot_id.
C39_HeartbeatFrame ==
    /\ [][BeatProcessed =>
            /\ UNCHANGED <<bot_id, token, scheduler, OBX, job, tasks, pc, items,
                           todo, waitSem, acked, handed>>
            /\ InFlight' = InFlight
            /\ Len(semValue') >= Len(semValue)
            /\ \A i \in 1..Len(semValue) : semValue'[i] = semValue[i]]_vars
    /\ [][TickActs => UNCHANGED <<assignment, ops, sem, bot_id, token, scheduler>>]_vars

\* A heartbeat has replaced the assignment and the semaphore while a job
\* was in flight on the old semaphore and the outbox file held a report;
\* the job holds its permit and the file is there.
C39_Witness ==
    /\ pushed # NoPush
    /\ assignment = pushed
    /\ Len(semValue) > 1
    /\ \E j \in InFlight : job[j].sem < sem /\ semValue[job[j].sem] < max_concurrency
    /\ OBX.exists
    /\ Len(OBX.lines) > 0
    /\ Parses(OBX.lines[1])

TypeOK ==
    /\ \A s \in 1..Len(semValue) : semValue[s] >= 0
    /\ sem = Len(semValue)
    /\ OBX.exists <=> OBX.lines # <<>>
    /\ handed <= MaxJobs
    /\ \A t \in Ticks : ended[t] \in {"none", "returned", "raised"}
    /\ \A t \in Ticks : before[t] \in Nat
    /\ boot \in {"register", "run", "failed", "stopped"}
    /\ Len(regs) <= MaxRegs
    /\ lastDrain.max_items \in MaxItemsArgs /\ lastDrain.held <= MaxAppends
====
